---- MODULE Spec2Model ----
(***************************************************************************)
(* Model of code/fitter.py: the Fitter class (attribute setters,           *)
(* initialize, _default_priors, create_priors, get_ndim, fit, fit_dynesty, *)
(* fit_multinest, save) and the module-level context the sampler adapters  *)
(* read (star, order, use_norm, coordinator, fixed, prior_dict).           *)
(*                                                                         *)
(* Numbers are integers.  A scipy.stats distribution is the record of its  *)
(* constructor and arguments.  Literals that are not integers are kept in  *)
(* the unit named where they are built.                                    *)
(***************************************************************************)
EXTENDS Integers, Sequences, FiniteSets, TLC

VARIABLES
    star,            \* self._star            (per Fitter)
    norm,            \* self._norm
    priorfile,       \* self._priorfile: None or a path
    estimate_logg,   \* self._estimate_logg
    engine,          \* self._engine
    threads,         \* self._threads
    dynamic,         \* self._dynamic
    coordinator,     \* self.coordinator  (<< >> before initialize)
    fixed,           \* self.fixed        (<< >> before initialize)
    default_priors,  \* self.default_priors
    priors,          \* self.priors
    ndim,            \* self.ndim
    loaded,          \* the rows sp.loadtxt read in the last create_priors
    pc,              \* where the script stands with this Fitter
    err,             \* the exception that ended the call, "" when none
    sampler,         \* the dynesty sampler class fit_dynesty constructed
    pool,            \* the multiprocessing Pool of fit_dynesty
    posterior_samples, \* the equal-weight samples save() last read
    out,             \* the dictionary save() pickles
    g_star,          \* module-level star
    g_order,         \* module-level order
    g_use_norm,      \* module-level use_norm
    g_coordinator,   \* module-level coordinator
    g_fixed,         \* module-level fixed
    g_prior_dict     \* module-level prior_dict

vars == <<star, norm, priorfile, estimate_logg, engine, threads, dynamic,
          coordinator, fixed, default_priors, priors, ndim, loaded, pc, err,
          sampler,
          pool, posterior_samples, out, g_star, g_order, g_use_norm, g_coordinator, g_fixed,
          g_prior_dict>>

attrVars == <<star, norm, priorfile, estimate_logg, engine, threads, dynamic>>
initVars == <<coordinator, fixed, default_priors, priors, ndim, loaded>>
fitVars == <<sampler, pool, posterior_samples, out>>
globVars == <<g_star, g_order, g_use_norm, g_coordinator, g_fixed,
              g_prior_dict>>

-----------------------------------------------------------------------------
(* Bounds of the model.                                                    *)

\* Most rows a prior file holds.
MaxRows == 2

\* Most equal-weight posterior samples a run hands to save().
MaxSamples == 2

\* Largest worker count a setup list asks for.
MaxThreads == 2

\* The Fitter instances of the process.
Fitters == {1, 2}

-----------------------------------------------------------------------------
(* Values.                                                                 *)

\* Python's None where a star is expected.
NoStar ==
    [starname |-> "None", Av |-> 0, get_temp |-> FALSE, temp |-> 0,
     temp_e |-> 0, dist |-> 0, dist_e |-> 0, has_rad |-> FALSE, rad |-> 0,
     rad_e |-> 0]

\* The stars of the model: catalog extinction zero or not, Gaia radius
\* missing (rad is None) or not.  Both have a measured temperature.
Stars ==
    { [starname |-> "A", Av |-> 0, get_temp |-> TRUE, temp |-> 50,
       temp_e |-> 1, dist |-> 10, dist_e |-> 1, has_rad |-> FALSE, rad |-> 0,
       rad_e |-> 0],
      [starname |-> "B", Av |-> 3, get_temp |-> TRUE, temp |-> 60,
       temp_e |-> 2, dist |-> 20, dist_e |-> 2, has_rad |-> TRUE, rad |-> 1,
       rad_e |-> 1] }

\* priorfile = None, and the path of the prior file.
NoFile == "None"
PriorPath == "priors.dat"

\* No rows: no prior file was read.
NoRows == << >>

\* A distribution: constructor name and arguments.
Dist(kind, args) == [dist |-> kind, args |-> args]

\* A dictionary value that is None.
NoneDist == Dist("None", << >>)

\* An attribute that was never assigned.
NoNdim == 0 - 1

\* One value of out['posterior_samples']: an array (a column of samples) or
\* a scalar (val holds the one number).
Array(col) == [kind |-> "array", val |-> col]
Scalar(v) == [kind |-> "scalar", val |-> <<v>>]

\* log_likelihood(theta, star, interpolators, norm), the external kernel: the
\* term of its arguments.
LogLikelihood(theta, s, nrm) ==
    [theta |-> theta, star |-> s.starname, norm |-> nrm]

NoLikelihood == [theta |-> << >>, star |-> "None", norm |-> FALSE]

\* Declare order of parameters.
Order(nrm) ==
    IF ~nrm
    THEN <<"teff", "logg", "z", "dist", "rad", "Av", "inflation">>
    ELSE <<"teff", "logg", "z", "norm", "Av", "inflation">>

param_list == {"teff", "logg", "z", "dist", "rad", "norm", "Av", "inflation"}

\* dict(): a dictionary is the function from its keys to their values.
EmptyDict == [p \in {} |-> NoneDist]

\* The dictionary save() has not built yet.
NoOut ==
    [set |-> FALSE, posterior_samples |-> EmptyDict, loglike |-> << >>,
     fixed |-> << >>, coordinator |-> << >>, best_fit |-> EmptyDict,
     likelihood |-> NoLikelihood, engine |-> "", norm |-> FALSE,
     star |-> "None"]

\* An attribute holding a dictionary, and the attribute before assignment.
Unset == [set |-> FALSE, map |-> EmptyDict]
Assigned(d) == [set |-> TRUE, map |-> d]

RECURSIVE SumSeq(_)
\* ndarray.sum()
SumSeq(s) == IF s = << >> THEN 0 ELSE Head(s) + SumSeq(Tail(s))

\* sp.zeros(n)
Zeros(n) == [i \in 1..n |-> 0]

\* An index search that is off by one.
MutWhere(par, order) == {i \in 2..Len(order) : order[i - 1] = par}

\* sp.where(par == order)[0]: the indices at which order holds par.
Where(par, order) == {i \in 1..Len(order) : order[i] = par}

\* a[idx] = v for an index array idx.
AssignAt(a, idx, v) == [i \in 1..Len(a) |-> IF i \in idx THEN v ELSE a[i]]

\* str.lower() on the kinds the files of the model spell.
Lower(s) ==
    CASE s = "TruncatedNormal" -> "truncatednormal"
      [] s = "FIXED" -> "fixed"
      [] OTHER -> s

-----------------------------------------------------------------------------
(* Prior files.  A row is (parameter, kind, operands); the operands are    *)
(* the numbers bo.split(',') and float() give, as many as the kind reads.  *)

Row(par, pri, bo) == [par |-> par, pri |-> pri, bo |-> bo]

\* Parameter names the rows of the model use ("foo" is no parameter).
FilePars == {"teff", "logg", "dist", "norm", "Av", "foo"}

\* The rows of the model: every kind for every name, and for teff and Av a
\* second fixed value, a second distribution and another spelling.
FileRows ==
    UNION { { Row(par, "uniform", <<0, 4>>),
              Row(par, "truncatednormal", <<2, 2, 6, 0>>),
              Row(par, "default", <<0>>),
              Row(par, "fixed", <<1>>) } : par \in FilePars }
    \cup { Row("teff", "FIXED", <<2>>), Row("Av", "FIXED", <<2>>),
           Row("Av", "normal", <<2, 1>>),
           Row("teff", "TruncatedNormal", <<2, 2, 6, 0>>) }

\* sp.loadtxt(..., unpack=True) gives one array per column for a file of two
\* or more rows.
FilesOver(rows) == UNION {[1..n -> rows] : n \in 2..MaxRows}

PriorFiles == FilesOver(FileRows)

-----------------------------------------------------------------------------
(* Fitter._default_priors                                                  *)

\* estimate(used_bands, params) returned None.
NoEstimate == << >>

\* What the isochrone estimator may return: None or (value, uncertainty).
Estimates == {NoEstimate, <<4, 1>>}

\* The keys of the dictionary _default_priors returns: logg is missing when
\* the estimator returned None.
DefaultKeys(nrm, est, logg_est) ==
    {"teff", "z", "Av", "inflation"}
    \cup (IF ~est \/ logg_est # NoEstimate THEN {"logg"} ELSE {})
    \cup (IF ~nrm THEN {"dist", "rad"} ELSE {"norm"})

\* The dictionary _default_priors returns.  z is in thousandths, the
\* uniform radius prior and the inflation loc and scale in tenths, the norm
\* prior's b and scale are powers of ten.
DefaultPriors(s, nrm, est, logg_est) ==
    [p \in DefaultKeys(nrm, est, logg_est) |->
        CASE p = "logg" ->
               IF ~est THEN Dist("logg_ppf", << >>)
               ELSE Dist("norm", <<logg_est[1], logg_est[2]>>)
          [] p = "teff" ->
               IF s.get_temp THEN Dist("norm", <<s.temp, s.temp_e>>)
               ELSE Dist("teff_prior", << >>)
          [] p = "z" -> Dist("norm", <<-125, 234>>)
          [] p = "dist" -> Dist("norm", <<s.dist, s.dist_e>>)
          [] p = "rad" ->
               IF s.has_rad THEN Dist("norm", <<s.rad, s.rad_e>>)
               ELSE Dist("uniform", <<1, 100>>)
          [] p = "norm" -> Dist("truncnorm", <<0, 20, 0, -20>>)
          [] p = "Av" ->
               IF s.Av = 0 THEN NoneDist ELSE Dist("uniform", <<0, s.Av>>)
          [] p = "inflation" -> Dist("truncnorm", <<-1, 9, 5, 5>>)]

\* A coordinator that marks the last index in place of the one before it.
MutDefaultCoordinator(coord, s) ==
    IF s.Av = 0 THEN AssignAt(coord, {Len(coord)}, 1) ELSE coord

\* self.coordinator after _default_priors: coordinator[-2] = 1 when the
\* star's extinction is zero.
DefaultCoordinator(coord, s) ==
    IF s.Av = 0 THEN AssignAt(coord, {Len(coord) - 1}, 1) ELSE coord

\* self.fixed after _default_priors: fixed[-2] = 0 when the star's
\* extinction is zero.
DefaultFixed(fix, s) ==
    IF s.Av = 0 THEN AssignAt(fix, {Len(fix) - 1}, 0) ELSE fix

-----------------------------------------------------------------------------
(* Fitter.create_priors                                                    *)

\* The state of the loop over the rows: the exception raised ("" when none),
\* self.coordinator, self.fixed and the local prior_dict.
LoopState(e, coord, fix, pd) ==
    [err |-> e, coordinator |-> coord, fixed |-> fix, prior_dict |-> pd]

\* prior_dict[par] = d
SetKey(pd, par, d) ==
    [p \in DOMAIN pd \cup {par} |-> IF p = par THEN d ELSE pd[p]]

\* st.truncnorm(a=low, b=up, loc=mu, scale=sig) with up and low
\* standardized: up, low = (up - mu) / sig, (low - mu) / sig.  The operands
\* of the model divide exactly.
TruncNorm(bo) ==
    LET mu == bo[1]
        sig == bo[2]
        up == bo[3]
        low == bo[4]
    IN  Dist("truncnorm", <<(low - mu) \div sig, (up - mu) \div sig, mu, sig>>)

\* One pass of the loop body for the row (par, pri, bo).
PriorRow(st, row, nrm, order, defaults) ==
    LET par == row.par
        kind == Lower(row.pri)
        bo == row.bo
    IN  IF par \notin param_list
        THEN [st EXCEPT !.err = "PriorError0"]
        ELSE IF nrm /\ (par = "dist" \/ par = "rad")
        THEN [st EXCEPT !.err = "PriorError1"]
        ELSE IF kind = "uniform"
        THEN [st EXCEPT !.prior_dict =
                 SetKey(@, par, Dist("uniform", <<bo[1], bo[2] - bo[1]>>))]
        ELSE IF kind = "normal"
        THEN [st EXCEPT !.prior_dict =
                 SetKey(@, par, Dist("norm", <<bo[1], bo[2]>>))]
        ELSE IF kind = "truncatednormal"
        THEN \* priot_dict[par] = st.truncnorm(...): the distribution is
             \* built, then the name priot_dict is looked up, and no such
             \* name is defined
             LET built == TruncNorm(bo)
             IN  [st EXCEPT !.err = "NameError"]
        ELSE IF kind = "default"
        THEN IF par \notin DOMAIN defaults
             THEN [st EXCEPT !.err = "KeyError"]
             ELSE [st EXCEPT !.prior_dict = SetKey(@, par, defaults[par])]
        ELSE IF kind = "fixed"
        THEN [st EXCEPT
                 !.coordinator = AssignAt(@, Where(par, order), 1),
                 !.fixed = AssignAt(@, Where(par, order), bo[1])]
        ELSE st

RECURSIVE PriorLoop(_, _, _, _, _)
\* for par, pri, bo in zip(param, prior, bounds): ... up to the first raise.
PriorLoop(st, rows, nrm, order, defaults) ==
    IF rows = << >> \/ st.err # ""
    THEN st
    ELSE PriorLoop(PriorRow(st, Head(rows), nrm, order, defaults),
                   Tail(rows), nrm, order, defaults)

\* create_priors(priorfile): the loop's final state and the dictionary
\* assigned to self.priors (Unset when the call raised before assigning).
CreatePriors(file, rows, coord, fix, nrm, order, defaults) ==
    IF file # NoFile
    THEN LET st == PriorLoop(LoopState("", coord, fix, EmptyDict), rows, nrm,
                             order, defaults)
         IN  [err |-> st.err, coordinator |-> st.coordinator,
              fixed |-> st.fixed,
              priors |-> IF st.err = "" THEN Assigned(st.prior_dict)
                         ELSE Unset]
    ELSE [err |-> "", coordinator |-> coord, fixed |-> fix,
          priors |-> Assigned(defaults)]

\* get_ndim with the physical-mode count in both modes.
MutGetNdim(nrm, coord) == 7 - SumSeq(coord)

\* Fitter.get_ndim
GetNdim(nrm, coord) == (IF ~nrm THEN 7 ELSE 6) - SumSeq(coord)

-----------------------------------------------------------------------------
(* Fitter.__init__ and the attribute setters.                              *)

\* The setup lists of the model: [engine] alone, or the engine followed by
\* nlive, dlogz (in tenths) and, for dynesty, bound, sample, threads, dynamic.
Setups ==
    {<<"dynesty">>, <<"multinest">>, <<"multinest", 100, 5>>}
    \cup {<<"dynesty", 100, 5, "multi", "rwalk", t, d>> :
             t \in 1..MaxThreads, d \in BOOLEAN}

\* No call on any Fitter is running: Python runs one call at a time.
Idle == \A g \in Fitters : pc[g] \in {"new", "initialized", "done", "error"}

Init ==
    /\ star = [f \in Fitters |-> NoStar]
    /\ norm = [f \in Fitters |-> FALSE]
    /\ priorfile = [f \in Fitters |-> NoFile]
    /\ estimate_logg = [f \in Fitters |-> FALSE]
    /\ engine = [f \in Fitters |-> "dynesty"]
    /\ threads = [f \in Fitters |-> 1]
    /\ dynamic = [f \in Fitters |-> FALSE]
    /\ coordinator = [f \in Fitters |-> << >>]
    /\ fixed = [f \in Fitters |-> << >>]
    /\ default_priors = [f \in Fitters |-> Unset]
    /\ priors = [f \in Fitters |-> Unset]
    /\ ndim = [f \in Fitters |-> NoNdim]
    /\ loaded = [f \in Fitters |-> NoRows]
    /\ pc = [f \in Fitters |-> "new"]
    /\ err = [f \in Fitters |-> ""]
    /\ sampler = [f \in Fitters |-> "none"]
    /\ pool = [f \in Fitters |-> "none"]
    /\ posterior_samples = [f \in Fitters |-> << >>]
    /\ out = [f \in Fitters |-> NoOut]
    /\ g_star = NoStar
    /\ g_order = << >>
    /\ g_use_norm = FALSE
    /\ g_coordinator = << >>
    /\ g_fixed = << >>
    /\ g_prior_dict = Unset

\* f.star = s
SetStar(f, s) ==
    /\ Idle
    /\ star' = [star EXCEPT ![f] = s]
    /\ UNCHANGED <<norm, priorfile, estimate_logg, engine, threads, dynamic,
                   initVars, pc, err, fitVars, globVars>>

\* f.norm = b
SetNorm(f, b) ==
    /\ Idle
    /\ norm' = [norm EXCEPT ![f] = b]
    /\ UNCHANGED <<star, priorfile, estimate_logg, engine, threads, dynamic,
                   initVars, pc, err, fitVars, globVars>>

\* f.priorfile = file
SetPriorfile(f, file) ==
    /\ Idle
    /\ priorfile' = [priorfile EXCEPT ![f] = file]
    /\ UNCHANGED <<star, norm, estimate_logg, engine, threads, dynamic,
                   initVars, pc, err, fitVars, globVars>>

\* f.estimate_logg = b
SetEstimateLogg(f, b) ==
    /\ Idle
    /\ estimate_logg' = [estimate_logg EXCEPT ![f] = b]
    /\ UNCHANGED <<star, norm, priorfile, engine, threads, dynamic,
                   initVars, pc, err, fitVars, globVars>>

\* f.setup = setup
SetSetup(f, setup) ==
    LET defaults == Len(setup) = 1
    IN  /\ Idle
        /\ engine' = [engine EXCEPT ![f] = setup[1]]
        /\ threads' = [threads EXCEPT ![f] =
                          IF setup[1] = "dynesty"
                          THEN (IF defaults THEN 1 ELSE setup[6])
                          ELSE @]
        /\ dynamic' = [dynamic EXCEPT ![f] =
                          IF setup[1] = "dynesty"
                          THEN (IF defaults THEN FALSE ELSE setup[7])
                          ELSE @]
        /\ UNCHANGED <<star, norm, priorfile, estimate_logg, initVars, pc,
                       err, fitVars, globVars>>

-----------------------------------------------------------------------------
(* Fitter.initialize                                                       *)

\* f.initialize(), the estimator returning logg_est when it is called and
\* the prior file holding rows when it is read.
Initialize(f, logg_est, rows) ==
    /\ Idle
    /\ estimate_logg[f] \/ logg_est = NoEstimate
    /\ (star[f] = NoStar \/ priorfile[f] = NoFile) => rows = NoRows
    /\ (star[f] # NoStar /\ priorfile[f] # NoFile) => rows # NoRows
    /\ IF star[f] = NoStar
       THEN /\ pc' = [pc EXCEPT ![f] = "error"]
            /\ err' = [err EXCEPT ![f] = "InputError"]
            /\ UNCHANGED <<attrVars, initVars, fitVars, globVars>>
       ELSE LET order == Order(norm[f])
                npars == IF ~norm[f] THEN 7 ELSE 6
                defaults == DefaultPriors(star[f], norm[f], estimate_logg[f],
                                          logg_est)
                coord0 == DefaultCoordinator(Zeros(npars), star[f])
                fixed0 == DefaultFixed(Zeros(npars), star[f])
                cp == CreatePriors(priorfile[f], rows, coord0, fixed0,
                                   norm[f], order, defaults)
            IN  /\ g_star' = star[f]
                /\ g_use_norm' = norm[f]
                /\ g_order' = order
                /\ coordinator' = [coordinator EXCEPT ![f] = cp.coordinator]
                /\ fixed' = [fixed EXCEPT ![f] = cp.fixed]
                /\ g_coordinator' = cp.coordinator
                /\ g_fixed' = cp.fixed
                /\ default_priors' =
                       [default_priors EXCEPT ![f] = Assigned(defaults)]
                /\ loaded' = [loaded EXCEPT ![f] = rows]
                /\ IF cp.err = ""
                   THEN /\ priors' = [priors EXCEPT ![f] = cp.priors]
                        /\ g_prior_dict' = cp.priors
                        /\ ndim' = [ndim EXCEPT ![f] =
                                       GetNdim(norm[f], cp.coordinator)]
                        /\ pc' = [pc EXCEPT ![f] = "initialized"]
                        /\ err' = [err EXCEPT ![f] = ""]
                   ELSE /\ pc' = [pc EXCEPT ![f] = "error"]
                        /\ err' = [err EXCEPT ![f] = cp.err]
                        /\ UNCHANGED <<priors, g_prior_dict, ndim>>
                /\ UNCHANGED <<attrVars, fitVars>>

-----------------------------------------------------------------------------
(* Fitter.fit, fit_multinest, fit_dynesty                                  *)

\* f.fit() up to the sampler: display(...) reads self.ndim; fit_dynesty with
\* more than one thread enters `with closing(Pool(self._threads))`.
Fit(f) ==
    /\ Idle
    /\ pc[f] \in {"new", "initialized"}
    /\ IF ndim[f] = NoNdim
       THEN /\ pc' = [pc EXCEPT ![f] = "error"]
            /\ err' = [err EXCEPT ![f] = "AttributeError"]
            /\ UNCHANGED pool
       ELSE /\ pc' = [pc EXCEPT ![f] =
                        IF engine[f] = "multinest" THEN "multinest_run"
                        ELSE "construct"]
            /\ pool' = [pool EXCEPT ![f] =
                          IF engine[f] # "multinest" /\ threads[f] > 1
                          THEN "open" ELSE "none"]
            /\ err' = [err EXCEPT ![f] = ""]
    /\ UNCHANGED <<attrVars, initVars, sampler, posterior_samples, out,
                   globVars>>

\* Where an exception raised in fit_dynesty goes: through the with block's
\* exit when a pool is held, else straight to the caller.
Raise(f) == IF pool[f] = "open" THEN "raised" ELSE "error"

\* sampler = dynesty.DynamicNestedSampler(...) or dynesty.NestedSampler(...)
Construct(f, ok) ==
    /\ pc[f] = "construct"
    /\ IF ok
       THEN /\ sampler' = [sampler EXCEPT ![f] =
                              IF dynamic[f] THEN "DynamicNestedSampler"
                              ELSE "NestedSampler"]
            /\ pc' = [pc EXCEPT ![f] = "run_nested"]
            /\ UNCHANGED err
       ELSE /\ pc' = [pc EXCEPT ![f] = Raise(f)]
            /\ err' = [err EXCEPT ![f] = "SamplerError"]
            /\ UNCHANGED sampler
    /\ UNCHANGED <<attrVars, initVars, pool, posterior_samples, out,
                   globVars>>

\* sampler.run_nested(...)
RunNested(f, ok) ==
    /\ pc[f] = "run_nested"
    /\ IF ok
       THEN /\ pc' = [pc EXCEPT ![f] =
                        IF pool[f] = "open" THEN "with_exit" ELSE "results"]
            /\ UNCHANGED err
       ELSE /\ pc' = [pc EXCEPT ![f] = Raise(f)]
            /\ err' = [err EXCEPT ![f] = "SamplerError"]
    /\ UNCHANGED <<attrVars, initVars, sampler, pool, posterior_samples, out,
                   globVars>>

\* An exit that closes the pool only when the block ends normally.
MutClosingExit(p, raised) == IF raised THEN p ELSE "closed"

\* What closing.__exit__ leaves of the pool: it calls executor.close().
ClosingExit(p, raised) == "closed"

\* Leaving `with closing(Pool(...)) as executor`, normally or by exception.
WithExit(f) ==
    /\ pc[f] \in {"with_exit", "raised"}
    /\ pool' = [pool EXCEPT ![f] = ClosingExit(@, pc[f] = "raised")]
    /\ pc' = [pc EXCEPT ![f] = IF pc[f] = "raised" THEN "error" ELSE "results"]
    /\ UNCHANGED <<attrVars, initVars, err, sampler, posterior_samples, out,
                   globVars>>

\* pymultinest.run(...)
MultinestRun(f, ok) ==
    /\ pc[f] = "multinest_run"
    /\ IF ok
       THEN /\ pc' = [pc EXCEPT ![f] = "results"]
            /\ UNCHANGED err
       ELSE /\ pc' = [pc EXCEPT ![f] = "error"]
            /\ err' = [err EXCEPT ![f] = "SamplerError"]
    /\ UNCHANGED <<attrVars, initVars, sampler, pool, posterior_samples, out,
                   globVars>>

-----------------------------------------------------------------------------
(* Fitter.save                                                             *)

\* The rows the samplers of the model return: row k of width w.  The values
\* are even, so that the median of any number of them is an integer.
SampleRow(k, w) == [j \in 1..w |-> 2 * k * j]

\* dynesty_results / multinest_results: the equal-weight posterior samples,
\* one row per sample, w columns.
PosteriorSamples(w) ==
    UNION {[1..n -> {SampleRow(k, w) : k \in {1, 2}}] : n \in 1..MaxSamples}

\* posterior_samples[:, j]
Column(samples, j) == [i \in 1..Len(samples) |-> samples[i][j]]

\* sp.median
Median(col) ==
    LET sorted == SortSeq(col, LAMBDA a, b : a < b)
        n == Len(col)
    IN  IF n % 2 = 1 THEN sorted[(n + 1) \div 2]
        ELSE (sorted[n \div 2] + sorted[n \div 2 + 1]) \div 2

\* The value of j when the loops of save() reach index i: the number of
\* free parameters before i, counted from 1.
FreeColumn(coord, i) == Cardinality({k \in 1..(i - 1) : coord[k] = 0}) + 1

\* build_params(theta, coordinator, fixed, use_norm) can index its arguments.
BuildParamsOk(theta, coord, fix, nrm) ==
    LET n == Len(Order(nrm))
    IN  /\ Len(coord) >= n
        /\ Len(fix) >= n
        /\ Cardinality({k \in 1..n : coord[k] = 0}) <= Len(theta)

\* build_params(theta, coordinator, fixed, use_norm): walk the canonical
\* order; a fixed index takes fixed[i], a free one the next entry of theta.
BuildParams(theta, coord, fix, nrm) ==
    [i \in 1..Len(Order(nrm)) |->
        IF coord[i] = 1 THEN fix[i] ELSE theta[FreeColumn(coord, i)]]

\* dynesty_log_like(cube): the module-level adapter dynesty calls.
DynestyLogLike(cube) ==
    LogLikelihood(BuildParams(cube, g_coordinator, g_fixed, g_use_norm),
                  g_star, g_use_norm)

\* multinest_log_like(cube, ndim, nparams): theta is the first ndim entries
\* of cube.
MultinestLogLike(cube, nd, nparams) ==
    LogLikelihood(BuildParams(SubSeq(cube, 1, nd), g_coordinator, g_fixed,
                              g_use_norm),
                  g_star, g_use_norm)

\* The free-parameter vectors the samplers of the model propose: w values.
Cubes(w) == {SampleRow(k, w) : k \in {1, 2}}

\* out['posterior_samples'][param] for the parameter at index i.
PosteriorEntry(samples, coord, fix, i) ==
    IF coord[i] = 0 THEN Array(Column(samples, FreeColumn(coord, i)))
    ELSE Scalar(fix[i])

\* A best fit that takes the first sample in place of the median.
MutBestFit(samples, coord, fix, i) ==
    IF coord[i] = 0 THEN Column(samples, FreeColumn(coord, i))[1]
    ELSE fix[i]

\* out['best_fit'][param] for the parameter at index i.
BestFit(samples, coord, fix, i) ==
    IF coord[i] = 0 THEN Median(Column(samples, FreeColumn(coord, i)))
    ELSE fix[i]

\* The loops of save() index past an array.
SaveIndexError(f, samples, width) ==
    \/ Len(g_order) > Len(coordinator[f])
    \/ Cardinality({k \in 1..Len(g_order) : coordinator[f][k] = 0}) > width
    \/ ~BuildParamsOk(samples[1], g_coordinator, g_fixed, norm[f])

\* The dictionary save() builds from the samples.
SaveOut(f, samples) ==
    LET order == g_order
        coord == coordinator[f]
        fix == fixed[f]
        idx(p) == CHOOSE i \in 1..Len(order) : order[i] = p
        named == {order[i] : i \in 1..Len(order)}
        best_theta == [i \in 1..Len(order) |-> BestFit(samples, coord, fix, i)]
    IN  [set |-> TRUE,
         posterior_samples |->
            [p \in named |-> PosteriorEntry(samples, coord, fix, idx(p))],
         loglike |->
            [i \in 1..Len(samples) |->
                LogLikelihood(BuildParams(samples[i], g_coordinator, g_fixed,
                                          norm[f]),
                              star[f], norm[f])],
         fixed |-> fix,
         coordinator |-> coord,
         best_fit |-> [p \in named |-> best_theta[idx(p)]],
         likelihood |-> LogLikelihood(best_theta, star[f], norm[f]),
         engine |-> engine[f],
         norm |-> norm[f],
         star |-> star[f].starname]

\* self.save(results): the reduction of the sampler's output, written to
\* the pickle and the log file.
Save(f, samples) ==
    /\ pc[f] = "results"
    /\ posterior_samples' = [posterior_samples EXCEPT ![f] = samples]
    /\ IF SaveIndexError(f, samples, ndim[f])
       THEN /\ pc' = [pc EXCEPT ![f] = "error"]
            /\ err' = [err EXCEPT ![f] = "IndexError"]
            /\ UNCHANGED out
       ELSE /\ out' = [out EXCEPT ![f] = SaveOut(f, samples)]
            /\ pc' = [pc EXCEPT ![f] = "done"]
            /\ UNCHANGED err
    /\ UNCHANGED <<attrVars, initVars, sampler, pool, globVars>>

-----------------------------------------------------------------------------
(* The scripts.                                                            *)

\* Prior files of the script that runs a whole fit: rows that fix or bound
\* teff, logg and Av.
FitFileRows ==
    { Row("teff", "fixed", <<1>>), Row("logg", "FIXED", <<2>>),
      Row("Av", "uniform", <<0, 4>>) }

FitFiles == FilesOver(FitFileRows)

\* What create_priors would read for Fitter f when the files at PriorPath
\* may be any of `files`.
Readable(f, files) ==
    IF star[f] = NoStar \/ priorfile[f] = NoFile THEN {NoRows} ELSE files

\* The inputs are added, then initialize() runs (fitter.py, initialize:
\* "To be run only after every input is added").
Configure(f) ==
    /\ pc[f] = "new"
    /\ \/ \E s \in Stars : SetStar(f, s)
       \/ \E b \in BOOLEAN : SetNorm(f, b)
       \/ \E file \in {NoFile, PriorPath} : SetPriorfile(f, file)
       \/ \E b \in BOOLEAN : SetEstimateLogg(f, b)

\* One Fitter taken from construction through initialize(), fit() and save().
Next ==
    \E f \in {1} :
        \/ Configure(f)
        \/ pc[f] = "new" /\ \E setup \in Setups : SetSetup(f, setup)
        \/ /\ pc[f] = "new"
           /\ \E e \in Estimates, rows \in Readable(f, FitFiles) :
                 Initialize(f, e, rows)
        \/ Fit(f)
        \/ \E ok \in BOOLEAN : Construct(f, ok)
        \/ \E ok \in BOOLEAN : RunNested(f, ok)
        \/ WithExit(f)
        \/ \E ok \in BOOLEAN : MultinestRun(f, ok)
        \/ \E samples \in PosteriorSamples(ndim[f]) : Save(f, samples)

Spec == Init /\ [][Next]_vars

\* One Fitter configured and initialized, over every prior file of the model.
NextPriors ==
    \E f \in {1} :
        \/ Configure(f)
        \/ /\ pc[f] = "new"
           /\ \E e \in Estimates, rows \in Readable(f, PriorFiles) :
                 Initialize(f, e, rows)

SpecPriors == Init /\ [][NextPriors]_vars

\* The prior file of the script with several Fitters.
SharedFiles ==
    {<<Row("teff", "fixed", <<1>>), Row("Av", "uniform", <<0, 4>>)>>}

\* Several Fitters in one process, each given its star, norm and priorfile
\* and then initialized, fitted with the default setup and saved; the
\* calls of different Fitters interleave, one call running at a time.
NextShared ==
    \E f \in Fitters :
        \/ pc[f] = "new" /\ \E s \in Stars : SetStar(f, s)
        \/ pc[f] = "new" /\ \E b \in BOOLEAN : SetNorm(f, b)
        \/ pc[f] = "new" /\ \E file \in {NoFile, PriorPath} :
                                SetPriorfile(f, file)
        \/ /\ pc[f] = "new"
           /\ \E rows \in Readable(f, SharedFiles) :
                 Initialize(f, NoEstimate, rows)
        \/ Fit(f)
        \/ \E ok \in BOOLEAN : Construct(f, ok)
        \/ \E ok \in BOOLEAN : RunNested(f, ok)
        \/ \E samples \in PosteriorSamples(ndim[f]) : Save(f, samples)

SpecShared == Init /\ [][NextShared]_vars

-----------------------------------------------------------------------------
(* Claims.                                                                 *)

\* The exceptions that report a configuration error (Error.py's InputError
\* and PriorError).
ConfigurationErrors == {"InputError", "PriorError0", "PriorError1"}

\* Dictionary d holds a distribution under key p.
HasDistribution(d, p) == p \in DOMAIN d /\ d[p] # NoneDist

\* The rows of `rows` that name parameter p with a kind in `kinds`.
RowsFor(rows, p, kinds) ==
    {k \in 1..Len(rows) : rows[k].par = p /\ Lower(rows[k].pri) \in kinds}

\* The largest member of a non-empty set of row numbers.
Last(ks) == CHOOSE k \in ks : \A j \in ks : j <= k

\* C1: once initialize() has returned, and through fit() and save(), ndim
\* equals len(order) minus the sum of the coordinator, and is not negative.
NdimInvariant ==
    \A f \in Fitters :
        ndim[f] # NoNdim =>
            /\ ndim[f] = Len(g_order) - SumSeq(coordinator[f])
            /\ ndim[f] >= 0

\* C1 witness: a normalized-mode fit with three fixed parameters saved.
NdimWitness ==
    \E f \in Fitters :
        /\ pc[f] = "done"
        /\ norm[f]
        /\ SumSeq(coordinator[f]) = 3
        /\ ndim[f] = 3

\* C4 as claimed: when log g estimation is on and the estimator returned
\* None, initialize() ends in a configuration error, so no fit starts and
\* no Prior Map without a logg prior is in use while logg is free.
EstimatorUnavailableIsError ==
    \A f \in Fitters :
        ( /\ default_priors[f].set
          /\ estimate_logg[f]
          /\ "logg" \notin DOMAIN default_priors[f].map )
        => /\ pc[f] = "error"
           /\ err[f] \in ConfigurationErrors

\* C9: whenever fit_dynesty has handed over to save(), has returned, or has
\* let an exception out, no pool is still open.
PoolReleased ==
    \A f \in Fitters :
        pc[f] \in {"results", "done", "error"} => pool[f] # "open"

\* C9 witness: a dynamic run with a pool failed in the sampler and the pool
\* was closed on the way out.
PoolReleasedWitness ==
    \E f \in Fitters :
        /\ pc[f] = "error"
        /\ err[f] = "SamplerError"
        /\ dynamic[f]
        /\ threads[f] > 1
        /\ pool[f] = "closed"

\* C10 as claimed: every canonical parameter's entry of posterior_samples,
\* fixed ones included, is an array with one value per sample, as long as
\* loglike.
PosteriorSamplesBroadcast ==
    \A f \in Fitters :
        out[f].set =>
            \A i \in 1..Len(g_order) :
                LET entry == out[f].posterior_samples[g_order[i]]
                IN  /\ entry.kind = "array"
                    /\ Len(entry.val) = Len(out[f].loglike)

\* C2 as claimed: after initialize() returns, every free parameter has a
\* distribution in the Prior Map.
FreeParametersHavePriors ==
    \A f \in Fitters :
        pc[f] = "initialized" =>
            \A i \in 1..Len(coordinator[f]) :
                coordinator[f][i] = 0 =>
                    HasDistribution(priors[f].map, Order(norm[f])[i])

\* C3 as claimed: for a star of zero extinction, after initialize() the
\* coordinator marks Av fixed, its fixed value is 0 and the Prior Map holds
\* no distribution for Av, with no prior file or with one whose Av rows are
\* of the kinds the claim lists (uniform, normal, default).
ZeroExtinctionFixesAv ==
    \A f \in Fitters :
        ( /\ pc[f] = "initialized"
          /\ star[f].Av = 0
          /\ RowsFor(loaded[f], "Av", {"fixed"}) = {} ) =>
            \A i \in 1..Len(coordinator[f]) :
                Order(norm[f])[i] = "Av" =>
                    /\ coordinator[f][i] = 1
                    /\ fixed[f][i] = 0
                    /\ ~HasDistribution(priors[f].map, "Av")

\* C5 as claimed: a prior file with a row whose name is no parameter makes
\* create_priors raise a configuration error, and self.priors is not
\* assigned.
UnknownNameIsConfigurationError ==
    \A f \in Fitters :
        (\E k \in 1..Len(loaded[f]) : loaded[f][k].par \notin param_list) =>
            /\ pc[f] = "error"
            /\ err[f] \in ConfigurationErrors
            /\ ~priors[f].set

\* C6 as claimed: in normalized mode a prior file with a row for dist or
\* rad makes create_priors raise a configuration error.
NormalizedModeRejectsDistRad ==
    \A f \in Fitters :
        (norm[f] /\ \E k \in 1..Len(loaded[f]) :
                       loaded[f][k].par \in {"dist", "rad"}) =>
            /\ pc[f] = "error"
            /\ err[f] \in ConfigurationErrors

\* C7 as claimed: when create_priors accepts the file, every 'fixed' row
\* (p, v) leaves the coordinator 1 and the fixed value v at p's index and no
\* entry for p in the Prior Map, and every index no 'fixed' row names is as
\* _default_priors left it.
FixedRowSetsItsValue ==
    \A f \in Fitters :
        (pc[f] = "initialized" /\ loaded[f] # NoRows) =>
            \A i \in 1..Len(coordinator[f]) :
                LET p == Order(norm[f])[i]
                    ks == RowsFor(loaded[f], p, {"fixed"})
                IN  IF ks # {}
                    THEN \A k \in ks :
                            /\ coordinator[f][i] = 1
                            /\ fixed[f][i] = loaded[f][k].bo[1]
                            /\ p \notin DOMAIN priors[f].map
                    ELSE /\ coordinator[f][i] =
                               (IF p = "Av" /\ star[f].Av = 0 THEN 1 ELSE 0)
                         /\ fixed[f][i] = 0

\* C7 amended: when create_priors accepts the file, at the index of every
\* parameter p with a 'fixed' row the coordinator is 1 and the fixed value
\* is that of the last 'fixed' row for p; every other index is as
\* _default_priors left it; and the Prior Map has an entry for p exactly
\* when a row of another kind names p.
FixedRowLastValueWins ==
    \A f \in Fitters :
        (pc[f] = "initialized" /\ loaded[f] # NoRows) =>
            /\ \A i \in 1..Len(coordinator[f]) :
                  LET p == Order(norm[f])[i]
                      ks == RowsFor(loaded[f], p, {"fixed"})
                  IN  IF ks # {}
                      THEN /\ coordinator[f][i] = 1
                           /\ fixed[f][i] = loaded[f][Last(ks)].bo[1]
                      ELSE /\ coordinator[f][i] =
                                 (IF p = "Av" /\ star[f].Av = 0 THEN 1 ELSE 0)
                           /\ fixed[f][i] = 0
            /\ \A p \in param_list :
                  p \in DOMAIN priors[f].map <=>
                      RowsFor(loaded[f], p, {"uniform", "normal", "default"})
                          # {}

\* C7 witness: a file fixing teff twice was accepted, and the later value
\* stands.
FixedRowWitness ==
    \E f \in Fitters :
        /\ pc[f] = "initialized"
        /\ loaded[f] = <<Row("teff", "fixed", <<1>>),
                         Row("teff", "FIXED", <<2>>)>>
        /\ coordinator[f][1] = 1
        /\ fixed[f][1] = 2

\* C8 as claimed: a file whose rows all name accepted parameters, whose
\* 'default' rows all have a default, and which ends p's rows with a
\* truncatednormal row, is read without error and leaves that row's
\* truncated normal under key p.
TruncatedNormalStored ==
    \A f \in Fitters :
        \A p \in param_list :
            LET rows == loaded[f]
                ks == RowsFor(rows, p, {"truncatednormal"})
                all == {k \in 1..Len(rows) : rows[k].par = p}
            IN  ( /\ ks # {}
                  /\ Last(all) \in ks
                  /\ \A k \in 1..Len(rows) :
                        /\ rows[k].par \in param_list
                        /\ ~(norm[f] /\ rows[k].par \in {"dist", "rad"})
                        /\ Lower(rows[k].pri) = "default"
                              => rows[k].par \in DOMAIN default_priors[f].map )
                => /\ pc[f] = "initialized"
                   /\ HasDistribution(priors[f].map, p)
                   /\ priors[f].map[p] = TruncNorm(rows[Last(ks)].bo)

\* C11: in the dictionary save() wrote, best_fit of each free parameter is
\* the median of the posterior column whose index is the number of free
\* parameters before it in canonical order, best_fit of each fixed parameter
\* is its fixed value, and the likelihood stored with best_fit is the
\* log-likelihood at the canonical-order vector of these values.
BestFitIsMedian ==
    \A f \in Fitters :
        out[f].set =>
            LET order == Order(norm[f])
                coord == coordinator[f]
                before(i) == Cardinality({k \in 1..(i - 1) : coord[k] = 0})
                theta == [i \in 1..Len(order) |-> out[f].best_fit[order[i]]]
            IN  /\ DOMAIN out[f].best_fit = {order[i] : i \in 1..Len(order)}
                /\ \A i \in 1..Len(order) :
                      out[f].best_fit[order[i]] =
                          IF coord[i] = 0
                          THEN Median(Column(posterior_samples[f],
                                             before(i) + 1))
                          ELSE fixed[f][i]
                /\ out[f].likelihood = LogLikelihood(theta, star[f], norm[f])

\* C11 witness: a saved fit of two different samples with a parameter fixed
\* by the prior file, whose best-fit vector is none of the vectors the
\* per-sample likelihoods were evaluated at.
BestFitWitness ==
    \E f \in Fitters :
        /\ pc[f] = "done"
        /\ Len(posterior_samples[f]) = 2
        /\ posterior_samples[f][1] # posterior_samples[f][2]
        /\ coordinator[f][1] = 1
        /\ out[f].best_fit["teff"] = fixed[f][1]
        /\ \A i \in 1..Len(out[f].loglike) :
              out[f].likelihood.theta # out[f].loglike[i].theta

\* theta is v expanded over coord and fix: as long as the canonical order,
\* equal to fix wherever coord is 1, and holding the entries of v, all of
\* them and in their order, in the other slots.
Expands(theta, v, coord, fix, order) ==
    LET free == {i \in 1..Len(order) : coord[i] = 0}
        before(i) == Cardinality({k \in free : k < i})
    IN  /\ Len(theta) = Len(order)
        /\ Len(theta) = (IF Len(order) = Len(Order(FALSE)) THEN 7 ELSE 6)
        /\ Cardinality(free) = Len(v)
        /\ \A i \in 1..Len(order) :
              theta[i] = IF coord[i] = 1 THEN fix[i] ELSE v[before(i) + 1]

\* C12: for the coordinator and fixed arrays initialize() left and every
\* free vector of length ndim, the vector the log-likelihood adapters and
\* save() hand to the likelihood has length len(order) (7 physical, 6
\* normalized), equals fixed at every index the coordinator marks, and holds
\* the free values in their order in the other slots; in physical mode with
\* only Av fixed, by the star's zero extinction, a vector of length 6 gives
\* one of length 7 whose Av entry is 0.
BuildParamsExpands ==
    \A f \in Fitters :
        LET order == Order(norm[f])
            coord == coordinator[f]
            fix == fixed[f]
            only_av == /\ ~norm[f]
                       /\ star[f].Av = 0
                       /\ RowsFor(loaded[f], "teff", {"fixed"}) = {}
                       /\ RowsFor(loaded[f], "logg", {"fixed"}) = {}
            av_zero(v, theta) ==
                only_av => Len(v) = 6 /\ Len(theta) = 7 /\ theta[6] = 0
        IN  /\ pc[f] \in {"run_nested", "multinest_run"} =>
                  \A cube \in Cubes(ndim[f]) :
                      LET theta ==
                              IF engine[f] = "multinest"
                              THEN MultinestLogLike(cube, ndim[f],
                                                    ndim[f]).theta
                              ELSE DynestyLogLike(cube).theta
                      IN  /\ Expands(theta, cube, coord, fix, order)
                          /\ av_zero(cube, theta)
            /\ out[f].set =>
                  \A i \in 1..Len(out[f].loglike) :
                      LET theta == out[f].loglike[i].theta
                          v == posterior_samples[f][i]
                      IN  /\ Expands(theta, v, coord, fix, order)
                          /\ av_zero(v, theta)

\* C12 witness: a physical-mode fit of a star of zero extinction, nothing
\* else fixed, was saved, and the vector of its first sample has seven
\* entries, the six drawn ones around a 0 for Av.
BuildParamsWitness ==
    \E f \in Fitters :
        /\ pc[f] = "done"
        /\ ~norm[f]
        /\ coordinator[f] = <<0, 0, 0, 0, 0, 1, 0>>
        /\ Len(posterior_samples[f][1]) = 6
        /\ out[f].loglike[1].theta =
              <<posterior_samples[f][1][1], posterior_samples[f][1][2],
                posterior_samples[f][1][3], posterior_samples[f][1][4],
                posterior_samples[f][1][5], 0, posterior_samples[f][1][6]>>

\* C13 as claimed: while fit() runs on an initialized Fitter, whatever was
\* assigned and initialized before on this or another Fitter, the
\* module-level context the adapters and save() read is that Fitter's: its
\* star, its priors, its coordinator and fixed arrays, and the order and
\* mode flag of its norm.
ContextBelongsToFitter ==
    \A f \in Fitters :
        ( /\ pc[f] \in {"construct", "run_nested", "with_exit",
                        "multinest_run", "results"}
          /\ ndim[f] # NoNdim ) =>
            /\ g_star = star[f]
            /\ g_prior_dict = priors[f]
            /\ g_coordinator = coordinator[f]
            /\ g_fixed = fixed[f]
            /\ g_order = Order(norm[f])
            /\ g_use_norm = norm[f]

====
